---- MODULE Spec2Model ----
(***************************************************************************)
(* Model of luactl's variable synchronisation (package sync):              *)
(* VariableProcessor.ProcessModules, processModule, extractVariables and   *)
(* syncAddonVariables.  Texts (module names, attribute expressions,        *)
(* descriptions) are sequences of one-character strings, so the string     *)
(* functions of the code are computed, not assumed.                        *)
(***************************************************************************)
EXTENDS Integers, Sequences, FiniteSets, TLC

VARIABLES
    dirState,        \* what os.ReadDir(vp.modulesDir) meets: "ok", "notexist", "ioerr"
    entries,         \* the directory listing os.ReadDir returns (sorted by name)
    srcFiles,        \* module name -> <modulesDir>/<m>/modules/<m>/variables.tf
    writeOk,         \* module name -> whether os.WriteFile of its target succeeds
    outFiles,        \* file name -> content of the file of that name in the target
                     \* directory: variables-<m>.tf and the consumer file <m>.tf
    ctxDone,         \* ctx.Done() is closed
    pc,              \* position in ProcessModules
    idx,             \* position of the range loop in entries
    processedCount,
    skippedCount,
    errorCount,
    result,          \* the value ProcessModules returned
    started,         \* history: the modules processModule was called for, in order
    writes,          \* history: the target files os.WriteFile was called on
    cancelledAt,     \* history: the position at which the context was cancelled
    atEntry          \* history: the files when the run began, [src, out]

vars == <<dirState, entries, srcFiles, writeOk, outFiles, ctxDone, pc, idx,
          processedCount, skippedCount, errorCount, result, started, writes,
          cancelledAt, atEntry>>

----------------------------------------------------------------------------
(* Bounds *)

MaxEntries == 3

MaxBlocks == 2

----------------------------------------------------------------------------
(* Characters and texts *)

Sp == " "

Q == "\""

Backslash == "\\"

\* The grave accent (U+0060), which a TLA+ string cannot hold.
BackTick == "GRAVE"

WhiteSpace == {" ", "\t", "\n", "\r"}

Absent == <<>>

RECURSIVE TrimLeft(_, _)
TrimLeft(s, cutset) ==
    IF s # <<>> /\ Head(s) \in cutset THEN TrimLeft(Tail(s), cutset) ELSE s

RECURSIVE TrimRight(_, _)
TrimRight(s, cutset) ==
    IF s # <<>> /\ s[Len(s)] \in cutset
    THEN TrimRight(SubSeq(s, 1, Len(s) - 1), cutset)
    ELSE s

\* strings.TrimSpace
TrimSpace(s) == TrimRight(TrimLeft(s, WhiteSpace), WhiteSpace)

\* strings.Trim(s, cutset)
Trim(s, cutset) == TrimRight(TrimLeft(s, cutset), cutset)

\* strings.ReplaceAll(s, old, "") for a one-character old
RECURSIVE RemoveAll(_, _)
RemoveAll(s, c) ==
    IF s = <<>> THEN <<>>
    ELSE IF Head(s) = c THEN RemoveAll(Tail(s), c)
    ELSE <<Head(s)>> \o RemoveAll(Tail(s), c)

\* strings.HasPrefix
HasPrefix(s, prefix) ==
    /\ Len(s) >= Len(prefix)
    /\ SubSeq(s, 1, Len(prefix)) = prefix

\* strings.Contains
Contains(s, substr) ==
    \E i \in 1..(Len(s) + 1) :
        /\ i + Len(substr) - 1 <= Len(s)
        /\ SubSeq(s, i, i + Len(substr) - 1) = substr

\* The escaping hclwrite applies to a quoted string literal; of the characters
\* it escapes only the double quote and the backslash occur in this alphabet.
RECURSIVE EscapeQuoted(_)
EscapeQuoted(s) ==
    IF s = <<>> THEN <<>>
    ELSE IF Head(s) \in {Q, Backslash}
         THEN <<Backslash, Head(s)>> \o EscapeQuoted(Tail(s))
         ELSE <<Head(s)>> \o EscapeQuoted(Tail(s))

\* hclwrite.TokensForValue(cty.StringVal(s)), as bytes
TokensForStringVal(s) == <<Q>> \o EscapeQuoted(s) \o <<Q>>

\* hclwrite.TokensForValue(cty.NullVal(cty.String)), as bytes
TokensForNullVal == <<"n", "u", "l", "l">>

\* fmt.Sprintf("%s Defaults to BT%sBT.", descriptionValue, defaultValue), BT the
\* grave accent
SprintfDefaultsTo(descriptionValue, defaultValue) ==
    descriptionValue
        \o <<" ", "D", "e", "f", "a", "u", "l", "t", "s", " ", "t", "o", " ", BackTick>>
        \o defaultValue
        \o <<BackTick, ".">>

----------------------------------------------------------------------------
(* Configuration constants *)

modulePrefix == <<"a", "d", "d", "o", "n">>

\* fmt.Sprintf(targetVariableFilePattern, moduleName)
targetVariableFilePattern(moduleName) ==
    <<"v", "a", "r", "i", "a", "b", "l", "e", "s", "-">> \o moduleName \o <<".", "t", "f">>

\* fmt.Sprintf(targetAddonFilePattern, moduleName): the consumer file
targetAddonFilePattern(moduleName) == moduleName \o <<".", "t", "f">>

\* The files processModule calls os.WriteFile on, as the legacy
\* processSingleModule did: the consumer file too
WriteTargetsLegacy(moduleName) ==
    {targetAddonFilePattern(moduleName), targetVariableFilePattern(moduleName)}

\* The files processModule calls os.WriteFile on
WriteTargets(moduleName) == {targetVariableFilePattern(moduleName)}

----------------------------------------------------------------------------
(* Blocks and files.  A block is [kind, labels, type, default, description]; *)
(* an attribute is the bytes of its expression tokens, Absent when the block *)
(* has no such attribute.  A source file is [state, blocks].                 *)

Block(kind, labels, type, default, description) ==
    [kind |-> kind, labels |-> labels, type |-> type, default |-> default,
     description |-> description]

\* os.ReadFile fails
Unreadable == [state |-> "unreadable", blocks |-> <<>>]

\* hclwrite.ParseConfig reports errors
Malformed == [state |-> "malformed", blocks |-> <<>>]

SourceFile(blocks) == [state |-> "ok", blocks |-> blocks]

\* file.Body().AppendBlock(block)
AppendBlockReversed(body, block) == <<block>> \o body

AppendBlock(body, block) == Append(body, block)

\* The loop of extractVariables over file.Body().Blocks()
RECURSIVE extractBlocks(_, _)
extractBlocks(blocks, varFile) ==
    IF blocks = <<>> THEN varFile
    ELSE LET block == Head(blocks) IN
         IF block.kind # "variable" THEN extractBlocks(Tail(blocks), varFile)
         ELSE IF Len(block.labels) = 0 THEN extractBlocks(Tail(blocks), varFile)
         ELSE extractBlocks(Tail(blocks), AppendBlock(varFile, block))

\* extractVariables with the errors of reading and parsing dropped
extractVariablesLax(file) ==
    IF file.state # "ok" THEN [err |-> "nil", varFile |-> <<>>]
    ELSE [err |-> "nil", varFile |-> extractBlocks(file.blocks, <<>>)]

\* extractVariables: [err, varFile]
extractVariables(file) ==
    IF file.state = "unreadable" THEN [err |-> "read", varFile |-> <<>>]
    ELSE IF file.state = "malformed" THEN [err |-> "parse", varFile |-> <<>>]
    ELSE [err |-> "nil", varFile |-> extractBlocks(file.blocks, <<>>)]

\* labels[0] == "enabled"
IsEnabledNever(labels) == FALSE

IsEnabled(labels) == labels[1] = "enabled"

\* The default attribute of a synthesized block
DefaultOfSource(block) == block.default

SynthDefault(block) == TokensForNullVal

\* descriptionValue before the default is appended
DescriptionValue(description) ==
    RemoveAll(Trim(TrimSpace(description), {Q}), Q)

\* The display string as the legacy syncAddonVariables computed it
DefaultDisplayLegacy(type, default) ==
    LET defaultValue == TrimSpace(RemoveAll(default, Q))
    IN  IF defaultValue = <<>> THEN <<Q, Q>> ELSE defaultValue

\* The display string without the empty-string marker
DefaultDisplayNoMarker(type, default) ==
    LET defaultValue == TrimSpace(default)
        typeAttribute == Trim(TrimSpace(type), {Q})
    IN  IF typeAttribute = <<"s", "t", "r", "i", "n", "g">>
        THEN Trim(defaultValue, {Q})
        ELSE defaultValue

\* defaultValue as it is put into the description
DefaultDisplay(type, default) ==
    LET defaultValue == TrimSpace(default)
        typeAttribute == Trim(TrimSpace(type), {Q})
        trimmed == IF typeAttribute = <<"s", "t", "r", "i", "n", "g">>
                   THEN Trim(defaultValue, {Q})
                   ELSE defaultValue
    IN  IF trimmed = <<>> THEN <<Q, Q>> ELSE trimmed

\* The description attribute of a synthesized block
SynthDescription(block) ==
    IF block.description = Absent THEN Absent
    ELSE IF block.default # Absent
         THEN TokensForStringVal(
                  SprintfDefaultsTo(DescriptionValue(block.description),
                                    DefaultDisplay(block.type, block.default)))
         ELSE TokensForStringVal(DescriptionValue(block.description))

\* hclwrite.NewBlock("variable", labels) with its three attributes set
NewVariable(block) ==
    Block("variable", block.labels, block.type, SynthDefault(block),
          SynthDescription(block))

\* The loop of syncAddonVariables: [panic, body].  GetAttribute("type") is nil
\* for a block without a type attribute and Expr() dereferences it.
RECURSIVE syncAddonVariables(_, _)
syncAddonVariables(blocks, body) ==
    IF blocks = <<>> THEN [panic |-> FALSE, body |-> body]
    ELSE LET block == Head(blocks) IN
         IF IsEnabled(block.labels) THEN syncAddonVariables(Tail(blocks), body)
         ELSE IF block.type = Absent THEN [panic |-> TRUE, body |-> body]
         ELSE syncAddonVariables(Tail(blocks), Append(body, NewVariable(block)))

\* File contents of the target directory
NoFile == [kind |-> "absent", body |-> <<>>]

OldFile == [kind |-> "old", body |-> <<>>]

TruncatedFile == [kind |-> "truncated", body |-> <<>>]

\* The banner template executed on file.Bytes()
Generated(body) == [kind |-> "generated", body |-> body]

\* A consumer file <m>.tf holding the blocks body
ConsumerFile(body) == [kind |-> "consumer", body |-> body]

----------------------------------------------------------------------------
(* The environment: directory listings and files *)

DirEntry(name, isDir) == [name |-> name, isDir |-> isDir]

\* The entries a modules directory may hold, in the order of their names
\* (os.ReadDir returns the entries sorted by filename).
EntryPool ==
    << DirEntry(<<"a", "d", "d", "o", "n">>, TRUE),
       DirEntry(<<"a", "d", "d", "o", "n", "-", "a">>, TRUE),
       DirEntry(<<"a", "d", "d", "o", "n", "-", "b">>, TRUE),
       DirEntry(<<"a", "d", "d", "o", "n", "-", "f">>, FALSE),
       DirEntry(<<"a", "d", "d", "o", "n", ".", "x">>, TRUE),
       DirEntry(<<"o", "t", "h", "e", "r">>, TRUE) >>

AllNames == {EntryPool[i].name : i \in 1..Len(EntryPool)}

TargetNames == {targetVariableFilePattern(n) : n \in AllNames}

ConsumerNames == {targetAddonFilePattern(n) : n \in AllNames}

RECURSIVE Pick(_, _)
Pick(i, chosen) ==
    IF i > Len(EntryPool) THEN <<>>
    ELSE (IF i \in chosen THEN <<EntryPool[i]>> ELSE <<>>) \o Pick(i + 1, chosen)

Listings ==
    {Pick(1, chosen) : chosen \in {c \in SUBSET (1..Len(EntryPool)) :
                                       Cardinality(c) <= MaxEntries}}

\* The directories that hold a module tree <name>/modules/<name>; in the
\* others no variables.tf is found
ModuleDirs == {EntryPool[1].name, EntryPool[2].name, EntryPool[3].name}

\* The module trees among the entries of a listing
DirNames(listing) ==
    {listing[i].name : i \in {j \in 1..Len(listing) : listing[j].isDir}} \cap ModuleDirs

tyString == <<Sp, "s", "t", "r", "i", "n", "g">>

tyQuotedString == <<Sp, Q, "s", "t", "r", "i", "n", "g", Q>>

tyAny == <<Sp, "a", "n", "y">>

tyList == <<Sp, "l", "i", "s", "t", "(", "s", "t", "r", "i", "n", "g", ")">>

exFoo == <<Sp, Q, "f", "o", "o", Q>>

exThree == <<Sp, "3">>

exEmptyString == <<Sp, Q, Q>>

exDesc == <<Sp, Q, "d", "e", "s", "c", Q>>

\* A description with escaped double quotes inside
exQuotingDesc == <<Sp, Q, "a", Backslash, Q, "b", Backslash, Q, Q>>

\* [type, default, description] of the source blocks of the variable "size"
AttributeSets ==
    { <<tyString, exFoo, exDesc>>,
      <<tyString, exThree, exDesc>>,
      <<tyString, exEmptyString, exDesc>>,
      <<tyAny, exFoo, exDesc>>,
      <<tyAny, exThree, exDesc>>,
      <<tyAny, exEmptyString, exDesc>>,
      <<tyQuotedString, exFoo, exDesc>>,
      <<tyList, exFoo, exDesc>>,
      <<tyString, exFoo, exQuotingDesc>>,
      <<tyString, Absent, exDesc>>,
      <<tyString, exFoo, Absent>>,
      <<tyString, Absent, Absent>>,
      <<Absent, exFoo, exDesc>> }

\* [name, type, default, description] of the other variable blocks
OtherVariables ==
    { <<"enabled", tyString, exFoo, exDesc>>,
      <<"enabled", Absent, Absent, Absent>>,
      <<"name", tyAny, exFoo, exDesc>>,
      <<"name", tyString, Absent, Absent>> }

SourceBlocks ==
    {Block("variable", <<"size">>, a[1], a[2], a[3]) : a \in AttributeSets}
        \cup {Block("variable", <<v[1]>>, v[2], v[3], v[4]) : v \in OtherVariables}
        \cup {Block("variable", <<>>, tyString, exFoo, exDesc),
              Block("variable", <<"size", "extra">>, tyString, exFoo, exDesc),
              Block("output", <<"size">>, Absent, Absent, exDesc)}

SourceFiles ==
    {Unreadable, Malformed}
        \cup {SourceFile(blocks) : blocks \in UNION {[1..k -> SourceBlocks] : k \in 0..MaxBlocks}}

TypedFile == SourceFile(<<Block("variable", <<"size">>, tyString, exFoo, exDesc)>>)

UntypedFile == SourceFile(<<Block("variable", <<"size">>, Absent, exFoo, exDesc)>>)

\* [src, writeOk] of one module of a batch
ModuleConds ==
    { [src |-> Unreadable, writeOk |-> TRUE],
      [src |-> Malformed, writeOk |-> TRUE],
      [src |-> TypedFile, writeOk |-> TRUE],
      [src |-> TypedFile, writeOk |-> FALSE],
      [src |-> UntypedFile, writeOk |-> TRUE] }

\* The files of a batch whose directories are in the conditions conds
BatchSources(listing, conds) ==
    [n \in AllNames |-> IF n \in DirNames(listing) THEN conds[n].src ELSE Unreadable]

BatchWriteOk(listing, conds) ==
    [n \in AllNames |-> IF n \in DirNames(listing) THEN conds[n].writeOk ELSE TRUE]

\* The files of a run over the one module EntryPool[1]
SynthSources(file) ==
    [n \in AllNames |-> IF n = EntryPool[1].name THEN file ELSE Unreadable]

----------------------------------------------------------------------------
(* Return values of ProcessModules *)

NoResult == [kind |-> "none", count |-> 0]

Nil == [kind |-> "nil", count |-> 0]

\* ctx.Err()
CtxErr == [kind |-> "ctx", count |-> 0]

\* "failed to read directory %q: %w"
ReadDirErr == [kind |-> "readdir", count |-> 0]

\* "encountered %d error(s) during processing"
Aggregate(n) == [kind |-> "aggregate", count |-> n]

\* The return after a failed os.ReadDir
ReadDirReturnStrict(ds) == ReadDirErr

ReadDirReturn(ds) == IF ds = "notexist" THEN Nil ELSE ReadDirErr

\* The return after the loop
FinalReturnOffByOne(errors) == IF errors > 1 THEN Aggregate(errors) ELSE Nil

FinalReturn(errors) == IF errors > 0 THEN Aggregate(errors) ELSE Nil

\* The filter without the test for "."
SkipEntryPrefixOnly(moduleName) == ~HasPrefix(moduleName, modulePrefix)

\* The filter on the names of the directories
SkipEntry(moduleName) ==
    \/ ~HasPrefix(moduleName, modulePrefix)
    \/ Contains(moduleName, <<".">>)

\* processModule: [outcome, body]
processModule(moduleName) ==
    LET extracted == extractVariables(srcFiles[moduleName]) IN
    IF extracted.err # "nil" THEN [outcome |-> extracted.err, body |-> <<>>]
    ELSE LET synced == syncAddonVariables(extracted.varFile, <<>>) IN
         IF synced.panic THEN [outcome |-> "panic", body |-> <<>>]
         ELSE IF writeOk[moduleName] THEN [outcome |-> "nil", body |-> synced.body]
         ELSE [outcome |-> "write", body |-> synced.body]

----------------------------------------------------------------------------
(* ProcessModules *)

InitWith(ds, listing, src, wok, old, done) ==
    /\ dirState = ds
    /\ entries = listing
    /\ srcFiles = src
    /\ writeOk = wok
    /\ outFiles = [t \in TargetNames \cup ConsumerNames |->
                       IF t \in ConsumerNames THEN ConsumerFile(<<>>)
                       ELSE IF old THEN OldFile ELSE NoFile]
    /\ atEntry = [src |-> src,
                  out |-> [t \in TargetNames \cup ConsumerNames |->
                              IF t \in ConsumerNames THEN ConsumerFile(<<>>)
                              ELSE IF old THEN OldFile ELSE NoFile]]
    /\ ctxDone = done
    /\ cancelledAt = IF done THEN "before" ELSE "none"
    /\ pc = "start"
    /\ idx = 1
    /\ processedCount = 0
    /\ skippedCount = 0
    /\ errorCount = 0
    /\ result = NoResult
    /\ started = <<>>
    /\ writes = {}

\* Batches of up to MaxEntries entries over small files
InitBatch ==
    \E listing \in Listings, old \in BOOLEAN, done \in BOOLEAN :
        \E conds \in [DirNames(listing) -> ModuleConds] :
            InitWith("ok", listing, BatchSources(listing, conds),
                     BatchWriteOk(listing, conds), old, done)

\* os.ReadDir fails
InitNoListing ==
    \E ds \in {"notexist", "ioerr"}, old \in BOOLEAN, done \in BOOLEAN :
        InitWith(ds, <<>>, [n \in AllNames |-> Unreadable], [n \in AllNames |-> TRUE],
                 old, done)

\* One module over source files of up to MaxBlocks blocks
InitSynth ==
    \E file \in SourceFiles :
        InitWith("ok", <<EntryPool[1]>>, SynthSources(file), [n \in AllNames |-> TRUE],
                 FALSE, FALSE)

Init == InitBatch \/ InitNoListing \/ InitSynth

\* The caller cancels the context, or its deadline passes
Cancel ==
    /\ pc \in {"start", "loop", "process"}
    /\ ~ctxDone
    /\ ctxDone' = TRUE
    /\ cancelledAt' = pc
    /\ UNCHANGED <<atEntry, dirState, entries, srcFiles, writeOk, outFiles, pc, idx,
                   processedCount, skippedCount, errorCount, result, started, writes>>

ReadDirFails ==
    /\ pc = "start"
    /\ dirState # "ok"
    /\ result' = ReadDirReturn(dirState)
    /\ pc' = "done"
    /\ UNCHANGED <<atEntry, dirState, entries, srcFiles, writeOk, outFiles, ctxDone, idx,
                   processedCount, skippedCount, errorCount, started, writes,
                   cancelledAt>>

ReadDirOk ==
    /\ pc = "start"
    /\ dirState = "ok"
    /\ pc' = "loop"
    /\ idx' = 1
    /\ processedCount' = 0
    /\ skippedCount' = 0
    /\ errorCount' = 0
    /\ UNCHANGED <<atEntry, dirState, entries, srcFiles, writeOk, outFiles, ctxDone, result,
                   started, writes, cancelledAt>>

\* case <-ctx.Done()
LoopCancelled ==
    /\ pc = "loop"
    /\ idx <= Len(entries)
    /\ ctxDone
    /\ result' = CtxErr
    /\ pc' = "done"
    /\ UNCHANGED <<atEntry, dirState, entries, srcFiles, writeOk, outFiles, ctxDone, idx,
                   processedCount, skippedCount, errorCount, started, writes,
                   cancelledAt>>

\* !entry.IsDir()
LoopNotDir ==
    /\ pc = "loop"
    /\ idx <= Len(entries)
    /\ ~ctxDone
    /\ ~entries[idx].isDir
    /\ idx' = idx + 1
    /\ UNCHANGED <<atEntry, dirState, entries, srcFiles, writeOk, outFiles, ctxDone, pc,
                   processedCount, skippedCount, errorCount, result, started, writes,
                   cancelledAt>>

LoopSkip ==
    /\ pc = "loop"
    /\ idx <= Len(entries)
    /\ ~ctxDone
    /\ entries[idx].isDir
    /\ SkipEntry(entries[idx].name)
    /\ skippedCount' = skippedCount + 1
    /\ idx' = idx + 1
    /\ UNCHANGED <<atEntry, dirState, entries, srcFiles, writeOk, outFiles, ctxDone, pc,
                   processedCount, errorCount, result, started, writes, cancelledAt>>

\* The call of vp.processModule
LoopStartModule ==
    /\ pc = "loop"
    /\ idx <= Len(entries)
    /\ ~ctxDone
    /\ entries[idx].isDir
    /\ ~SkipEntry(entries[idx].name)
    /\ started' = Append(started, entries[idx].name)
    /\ pc' = "process"
    /\ UNCHANGED <<atEntry, dirState, entries, srcFiles, writeOk, outFiles, ctxDone, idx,
                   processedCount, skippedCount, errorCount, result, writes,
                   cancelledAt>>

\* processModule returns nil, having written the target file
ProcessModuleOk ==
    /\ pc = "process"
    /\ LET moduleName == entries[idx].name
           done == processModule(moduleName)
       IN  /\ done.outcome = "nil"
           /\ outFiles' = [t \in DOMAIN outFiles |->
                               IF t \in WriteTargets(moduleName)
                               THEN Generated(done.body)
                               ELSE outFiles[t]]
           /\ writes' = writes \cup WriteTargets(moduleName)
    /\ processedCount' = processedCount + 1
    /\ idx' = idx + 1
    /\ pc' = "loop"
    /\ UNCHANGED <<atEntry, dirState, entries, srcFiles, writeOk, ctxDone, skippedCount,
                   errorCount, result, started, cancelledAt>>

\* extractVariables fails: the source file cannot be read or parsed
ProcessModuleSourceErr ==
    /\ pc = "process"
    /\ processModule(entries[idx].name).outcome \in {"read", "parse"}
    /\ errorCount' = errorCount + 1
    /\ idx' = idx + 1
    /\ pc' = "loop"
    /\ UNCHANGED <<atEntry, dirState, entries, srcFiles, writeOk, outFiles, ctxDone,
                   processedCount, skippedCount, result, started, writes,
                   cancelledAt>>

\* os.WriteFile fails: at open (the file is as before) or after it truncated
\* the file
ProcessModuleWriteErr ==
    /\ pc = "process"
    /\ LET moduleName == entries[idx].name
       IN  /\ processModule(moduleName).outcome = "write"
           /\ \E truncated \in BOOLEAN :
                  outFiles' = [t \in DOMAIN outFiles |->
                                  IF t \in WriteTargets(moduleName) /\ truncated
                                  THEN TruncatedFile
                                  ELSE outFiles[t]]
           /\ writes' = writes \cup WriteTargets(moduleName)
    /\ errorCount' = errorCount + 1
    /\ idx' = idx + 1
    /\ pc' = "loop"
    /\ UNCHANGED <<atEntry, dirState, entries, srcFiles, writeOk, ctxDone, processedCount,
                   skippedCount, result, started, cancelledAt>>

\* The nil dereference of GetAttribute("type").Expr() ends the process
ProcessModulePanic ==
    /\ pc = "process"
    /\ processModule(entries[idx].name).outcome = "panic"
    /\ pc' = "crashed"
    /\ UNCHANGED <<atEntry, dirState, entries, srcFiles, writeOk, outFiles, ctxDone, idx,
                   processedCount, skippedCount, errorCount, result, started, writes,
                   cancelledAt>>

\* The range loop is over
LoopEnd ==
    /\ pc = "loop"
    /\ idx > Len(entries)
    /\ result' = FinalReturn(errorCount)
    /\ pc' = "done"
    /\ UNCHANGED <<atEntry, dirState, entries, srcFiles, writeOk, outFiles, ctxDone, idx,
                   processedCount, skippedCount, errorCount, started, writes,
                   cancelledAt>>

Next ==
    \/ Cancel
    \/ ReadDirFails
    \/ ReadDirOk
    \/ LoopCancelled
    \/ LoopNotDir
    \/ LoopSkip
    \/ LoopStartModule
    \/ ProcessModuleOk
    \/ ProcessModuleSourceErr
    \/ ProcessModuleWriteErr
    \/ ProcessModulePanic
    \/ LoopEnd

Spec == Init /\ [][Next]_vars

----------------------------------------------------------------------------
(* The earlier version of the package: syncAddonDefaults rewrites the       *)
(* consumer file <moduleName>.tf.  A consumer file is a sequence of blocks  *)
(* [kind, attrs], attrs the attributes [name, expr] in the order of the     *)
(* file.  A rewritten expression is the sequence of its tokens followed by  *)
(* the bytes of the default.                                                *)

ConsumerBlock(kind, attrs) == [kind |-> kind, attrs |-> attrs]

Attribute(name, expr) == [name |-> name, expr |-> expr]

\* A consumer file hclwrite.ParseConfig rejects
MalformedConsumer == [kind |-> "malformed", body |-> <<>>]

\* defaults[name] of a Go map: a missing key reads as the nil Tokens
MapGet(defaults, name) == IF name \in DOMAIN defaults THEN defaults[name] ELSE <<>>

\* The loop that fills the map defaults from the blocks of varFile
RECURSIVE BuildDefaults(_, _)
BuildDefaults(blocks, defaults) ==
    IF blocks = <<>> THEN defaults
    ELSE LET block == Head(blocks)
             name == block.labels[1]
             tokens == IF block.default # Absent THEN block.default
                       ELSE TokensForNullVal
         IN  BuildDefaults(Tail(blocks), (name :> tokens) @@ defaults)

TokensForIdentifier(name) == <<name>>

TokensForFunctionCall(funcName, args) == <<funcName, "(">> \o args \o <<")">>

\* strings.Contains(expr, "try") || strings.Contains(expr, "lookup")
HasMarker(expr) ==
    Contains(expr, <<"t", "r", "y">>) \/ Contains(expr, <<"l", "o", "o", "k", "u", "p">>)

\* The tokens given to SetAttributeRaw
TernaryTokens(name, defaults) ==
    LET lookupTokens ==
            TokensForIdentifier("local") \o <<".">> \o TokensForIdentifier("addon")
                \o <<",">> \o TokensForStringVal(<<name>>) \o <<",">>
                \o MapGet(defaults, name)
    IN  TokensForIdentifier("var") \o <<".">> \o TokensForIdentifier(name)
            \o <<"!=">> \o TokensForIdentifier("null") \o <<"?">>
            \o TokensForIdentifier("var") \o <<".">> \o TokensForIdentifier(name)
            \o <<":">> \o TokensForFunctionCall("lookup", lookupTokens)

RewriteAttribute(attribute, defaults) ==
    IF HasMarker(attribute.expr)
    THEN Attribute(attribute.name, TernaryTokens(attribute.name, defaults))
    ELSE attribute

RewriteBlock(block, defaults) ==
    IF block.kind # "module" THEN block
    ELSE ConsumerBlock(block.kind,
                       [a \in DOMAIN block.attrs |->
                           RewriteAttribute(block.attrs[a], defaults)])

RewriteFile(body, defaults) == [k \in DOMAIN body |-> RewriteBlock(body[k], defaults)]

\* syncAddonDefaults: [err, body], body the bytes handed to os.WriteFile
syncAddonDefaults(moduleName, varFile) ==
    LET file == outFiles[targetAddonFilePattern(moduleName)]
    IN  IF file.kind = "absent" THEN [err |-> "read", body |-> <<>>]
        ELSE IF file.kind = "malformed" THEN [err |-> "parse", body |-> <<>>]
        ELSE [err |-> IF writeOk[moduleName] THEN "nil" ELSE "write",
              body |-> RewriteFile(file.body, BuildDefaults(varFile, <<>>))]

\* The error syncAddonDefaults returns
DefaultsErr(err) == [kind |-> err, count |-> 0]

exTry == <<Sp, "t", "r", "y", "(", "x", ")">>

exLookup == <<Sp, "l", "o", "o", "k", "u", "p", "(", "x", ")">>

exVarEntry == <<Sp, "v", "a", "r", ".", "e", "n", "t", "r", "y">>

ConsumerBodies ==
    { <<>>,
      <<ConsumerBlock("module", <<Attribute("size", exTry)>>)>>,
      <<ConsumerBlock("module", <<Attribute("size", exThree)>>)>>,
      <<ConsumerBlock("module", <<Attribute("size", exLookup), Attribute("name", exFoo)>>)>>,
      <<ConsumerBlock("module", <<Attribute("source", exFoo), Attribute("size", exVarEntry)>>)>>,
      <<ConsumerBlock("module", <<Attribute("size", exTry), Attribute("name", exLookup)>>)>>,
      <<ConsumerBlock("locals", <<Attribute("size", exTry)>>),
        ConsumerBlock("module", <<Attribute("name", exTry)>>)>> }

ConsumerFiles == {NoFile, MalformedConsumer} \cup {ConsumerFile(body) : body \in ConsumerBodies}

LegacyBlocks ==
    {Block("variable", <<n>>, tyString, default, exDesc) :
        n \in {"size", "name"}, default \in {exFoo, exThree, Absent}}
        \cup {Block("output", <<"size">>, Absent, Absent, exDesc)}

LegacySources ==
    {SourceFile(blocks) : blocks \in UNION {[1..k -> LegacyBlocks] : k \in 0..MaxBlocks}}

\* One module, its parsed source and its consumer file
LegacyInit ==
    \E source \in LegacySources, consumer \in ConsumerFiles, wok \in BOOLEAN :
        LET files == [t \in TargetNames \cup ConsumerNames |->
                         IF t = targetAddonFilePattern(EntryPool[1].name) THEN consumer
                         ELSE IF t \in ConsumerNames THEN ConsumerFile(<<>>)
                         ELSE NoFile]
        IN  /\ dirState = "ok"
            /\ entries = <<EntryPool[1]>>
            /\ srcFiles = SynthSources(source)
            /\ writeOk = [n \in AllNames |-> wok]
            /\ outFiles = files
            /\ atEntry = [src |-> SynthSources(source), out |-> files]
            /\ ctxDone = FALSE
            /\ cancelledAt = "none"
            /\ pc = "defaults"
            /\ idx = 1
            /\ processedCount = 0
            /\ skippedCount = 0
            /\ errorCount = 0
            /\ result = NoResult
            /\ started = <<EntryPool[1].name>>
            /\ writes = {}

\* os.ReadFile or hclwrite.ParseConfig fails on the consumer file
SyncAddonDefaultsFileErr ==
    /\ pc = "defaults"
    /\ LET moduleName == entries[idx].name
           done == syncAddonDefaults(moduleName,
                                     extractVariables(srcFiles[moduleName]).varFile)
       IN  /\ done.err \in {"read", "parse"}
           /\ result' = DefaultsErr(done.err)
    /\ pc' = "defaultsDone"
    /\ UNCHANGED <<atEntry, dirState, entries, srcFiles, writeOk, outFiles, ctxDone, idx,
                   processedCount, skippedCount, errorCount, started, writes,
                   cancelledAt>>

\* os.WriteFile fails: the consumer file is as it was or truncated
SyncAddonDefaultsWriteErr ==
    /\ pc = "defaults"
    /\ LET moduleName == entries[idx].name
           filePath == targetAddonFilePattern(moduleName)
           done == syncAddonDefaults(moduleName,
                                     extractVariables(srcFiles[moduleName]).varFile)
       IN  /\ done.err = "write"
           /\ \E truncated \in BOOLEAN :
                  outFiles' = [outFiles EXCEPT ![filePath] =
                                  IF truncated THEN TruncatedFile ELSE @]
           /\ writes' = writes \cup {filePath}
           /\ result' = DefaultsErr(done.err)
    /\ pc' = "defaultsDone"
    /\ UNCHANGED <<atEntry, dirState, entries, srcFiles, writeOk, ctxDone, idx,
                   processedCount, skippedCount, errorCount, started, cancelledAt>>

\* The consumer file is rewritten
SyncAddonDefaultsOk ==
    /\ pc = "defaults"
    /\ LET moduleName == entries[idx].name
           filePath == targetAddonFilePattern(moduleName)
           done == syncAddonDefaults(moduleName,
                                     extractVariables(srcFiles[moduleName]).varFile)
       IN  /\ done.err = "nil"
           /\ outFiles' = [outFiles EXCEPT ![filePath] = ConsumerFile(done.body)]
           /\ writes' = writes \cup {filePath}
           /\ result' = Nil
    /\ pc' = "defaultsDone"
    /\ UNCHANGED <<atEntry, dirState, entries, srcFiles, writeOk, ctxDone, idx,
                   processedCount, skippedCount, errorCount, started, cancelledAt>>

LegacyNext ==
    \/ SyncAddonDefaultsFileErr
    \/ SyncAddonDefaultsWriteErr
    \/ SyncAddonDefaultsOk

LegacySpec == LegacyInit /\ [][LegacyNext]_vars

----------------------------------------------------------------------------
(* Vocabulary of the properties, defined apart from the operators above *)

SetMin(S) == CHOOSE x \in S : \A y \in S : x <= y

SetMax(S) == CHOOSE x \in S : \A y \in S : x >= y

\* s without the characters of cutset that surround it
Stripped(s, cutset) ==
    LET keep == {i \in 1..Len(s) : s[i] \notin cutset}
    IN  IF keep = {} THEN <<>> ELSE SubSeq(s, SetMin(keep), SetMax(keep))

NotQuote(c) == c # Q

\* The string a quoted literal denotes
RECURSIVE Unescaped(_)
Unescaped(s) ==
    IF s = <<>> THEN <<>>
    ELSE IF Head(s) = Backslash /\ Len(s) >= 2
         THEN <<s[2]>> \o Unescaped(SubSeq(s, 3, Len(s)))
         ELSE <<Head(s)>> \o Unescaped(Tail(s))

StringValue(literal) == Unescaped(SubSeq(literal, 2, Len(literal) - 1))

\* The text between the grave accents of a description
DisplayIn(value) ==
    LET ticks == {i \in 1..Len(value) : value[i] = BackTick}
    IN  SubSeq(value, SetMin(ticks) + 1, SetMax(ticks) - 1)

DefaultsToText == <<" ", "D", "e", "f", "a", "u", "l", "t", "s", " ", "t", "o", " ">>

\* A directory whose name starts with "addon" and holds no "."
IsCandidate(entry) ==
    /\ entry.isDir
    /\ Len(entry.name) >= 5
    /\ SubSeq(entry.name, 1, 5) = <<"a", "d", "d", "o", "n">>
    /\ \A k \in 1..Len(entry.name) : entry.name[k] # "."

Candidates == {i \in 1..Len(entries) : IsCandidate(entries[i])}

\* The module's source cannot be read or parsed, or its target cannot be written
ModuleFails(m) == srcFiles[m].state # "ok" \/ ~writeOk[m]

FailedCandidates == {i \in Candidates : ModuleFails(entries[i].name)}

\* The candidates whose processing has returned an error so far
FailedSoFar == {i \in FailedCandidates : i < idx}

WasStarted(m) == \E k \in 1..Len(started) : started[k] = m

\* The modules whose target file this run generated
GeneratedModules ==
    {m \in AllNames :
        /\ targetVariableFilePattern(m) \in writes
        /\ outFiles[targetVariableFilePattern(m)].kind = "generated"}

OutBody(m) == outFiles[targetVariableFilePattern(m)].body

\* A top-level variable block with a label, other than "enabled"
IsKept(b) == b.kind = "variable" /\ Len(b.labels) > 0 /\ b.labels[1] # "enabled"

SrcKept(m) == SelectSeq(srcFiles[m].blocks, IsKept)

NamesOf(blocks) == [i \in 1..Len(blocks) |-> blocks[i].labels[1]]

\* The declared type is string (written string or, quoted, "string")
DeclaresString(b) ==
    Stripped(Stripped(b.type, WhiteSpace), {Q}) = <<"s", "t", "r", "i", "n", "g">>

\* The description's text: without surrounding whitespace and double quotes
DescriptionText(b) == SelectSeq(Stripped(b.description, WhiteSpace), NotQuote)

\* The display of the default as the quoting policy states it
PolicyDisplay(b) ==
    LET bare == Stripped(b.default, WhiteSpace)
        shown == IF DeclaresString(b) THEN Stripped(bare, {Q}) ELSE bare
    IN  IF shown = <<>> THEN <<Q, Q>> ELSE shown

\* The display with the quotes stripped whatever the type
UnquotedDisplay(b) ==
    LET shown == Stripped(Stripped(b.default, WhiteSpace), {Q})
    IN  IF shown = <<>> THEN <<Q, Q>> ELSE shown

\* The pairs <<m, i>> of the synthesized blocks whose source block has both a
\* description and a default
Described ==
    {p \in GeneratedModules \X (1..MaxBlocks) :
        /\ p[2] <= Len(OutBody(p[1]))
        /\ p[2] <= Len(SrcKept(p[1]))
        /\ SrcKept(p[1])[p[2]].description # Absent
        /\ SrcKept(p[1])[p[2]].default # Absent}

----------------------------------------------------------------------------
(* Properties *)

\* C1: if the context is already cancelled before the module loop starts, then
\* for every directory listing, the empty one included, no module is processed,
\* no output file is written and ProcessModules returns the cancellation error.
C1_ExpiredBeforeLoop ==
    (pc = "done" /\ dirState = "ok" /\ cancelledAt \in {"before", "start"})
        => (result = CtxErr /\ started = <<>> /\ writes = {})

\* C2: whenever the context is cancelled while a batch is running, before any
\* module, between modules or while the last module is processed, ProcessModules
\* returns the cancellation cause, never the aggregate error and never success.
C2_CancellationSupersedes ==
    (pc = "done" /\ dirState = "ok" /\ cancelledAt \in {"start", "loop", "process"})
        => result = CtxErr

\* C3: absent cancellation, when the batch has ended every candidate module that
\* follows a failed module in the listing was processed, and the error counter
\* counts each failed module once.
C3_FailureNeverAborts ==
    (pc \in {"done", "crashed"} /\ dirState = "ok" /\ ~ctxDone)
        => /\ \A i \in FailedSoFar : \A j \in Candidates :
                  i < j => WasStarted(entries[j].name)
           /\ errorCount = Cardinality(FailedSoFar)

\* C4: when the listing succeeds and the context is never cancelled, the value
\* ProcessModules returns is the aggregate error carrying the number of failed
\* candidate modules if that number is positive, and success if it is zero.
C4_AggregateCount ==
    (pc = "done" /\ dirState = "ok" /\ ~ctxDone)
        => result = IF Cardinality(FailedCandidates) > 0
                    THEN [kind |-> "aggregate", count |-> Cardinality(FailedCandidates)]
                    ELSE [kind |-> "nil", count |-> 0]

C4_Witness ==
    /\ pc = "done"
    /\ dirState = "ok"
    /\ ~ctxDone
    /\ Cardinality(FailedCandidates) = 2
    /\ Cardinality(Candidates) = 3
    /\ result.kind = "aggregate"

\* C5: when the modules directory does not exist ProcessModules returns success
\* with all counters zero and no file written; when the listing fails otherwise
\* it returns an error; in both cases no module is processed.
C5_MissingDirectory ==
    (pc = "done" /\ dirState # "ok")
        => /\ started = <<>>
           /\ writes = {}
           /\ processedCount = 0 /\ skippedCount = 0 /\ errorCount = 0
           /\ (dirState = "notexist" => result.kind = "nil")
           /\ (dirState = "ioerr" => result.kind = "readdir")

C5_Witness == pc = "done" /\ dirState = "notexist" /\ result.kind = "nil"

\* C6: no block of a synthesized document has the name label "enabled",
\* wherever and however often "enabled" occurs in the source.
C6_NoEnabledBlock ==
    \A m \in GeneratedModules : \A i \in 1..Len(OutBody(m)) :
        OutBody(m)[i].labels[1] # "enabled"

C6_Witness ==
    \E m \in GeneratedModules :
        /\ Len(srcFiles[m].blocks) = 2
        /\ srcFiles[m].blocks[1].labels = <<"enabled">>
        /\ srcFiles[m].blocks[2].labels = <<"enabled">>
        /\ srcFiles[m].blocks[1] # srcFiles[m].blocks[2]

\* C7: every block of a synthesized document has the default attribute null,
\* whether its source block declared a default or none.
C7_DefaultNull ==
    \A m \in GeneratedModules : \A i \in 1..Len(OutBody(m)) :
        OutBody(m)[i].default = <<"n", "u", "l", "l">>

C7_Witness ==
    \E m \in GeneratedModules :
        /\ Len(OutBody(m)) = 2
        /\ SrcKept(m)[1].default = exFoo
        /\ SrcKept(m)[2].default = Absent

\* C8: the names of the blocks of a synthesized document are the names of the
\* source's top-level variable blocks that carry a label, in source order,
\* without the "enabled" ones.
C8_NamesInSourceOrder ==
    \A m \in GeneratedModules :
        /\ Len(OutBody(m)) = Len(SrcKept(m))
        /\ NamesOf(OutBody(m)) = NamesOf(SrcKept(m))
        /\ \A i \in 1..Len(OutBody(m)) :
               /\ OutBody(m)[i].kind = "variable"
               /\ OutBody(m)[i].labels = SrcKept(m)[i].labels

C8_Witness ==
    \E m \in GeneratedModules :
        /\ Len(srcFiles[m].blocks) = 2
        /\ srcFiles[m].blocks[1].kind = "variable"
        /\ srcFiles[m].blocks[1].labels = <<>>
        /\ NamesOf(OutBody(m)) = <<"name">>

C10_QuotesStrippedForEveryType ==
    \A p \in Described :
        DisplayIn(StringValue(OutBody(p[1])[p[2]].description))
            = UnquotedDisplay(SrcKept(p[1])[p[2]])

\* C10 amended: the display has the default's surrounding whitespace stripped
\* whatever the declared type; when the declared type is not string its double
\* quotes are kept, and when it is string they are stripped.
C10_QuotesKeptUnlessString ==
    \A p \in Described :
        LET src == SrcKept(p[1])[p[2]]
            display == DisplayIn(StringValue(OutBody(p[1])[p[2]].description))
        IN  /\ ~DeclaresString(src) => display = Stripped(src.default, WhiteSpace)
            /\ DeclaresString(src) => display = UnquotedDisplay(src)

C10_Witness ==
    \E p \in Described :
        /\ SrcKept(p[1])[p[2]].type = tyAny
        /\ SrcKept(p[1])[p[2]].default = exFoo
        /\ DisplayIn(StringValue(OutBody(p[1])[p[2]].description))
               = <<Q, "f", "o", "o", Q>>

\* The candidates whose iteration of the loop is over
Completed == {i \in Candidates : i < idx}

\* C11: a run writes only the files variables-<m>.tf of the modules whose source
\* was read and parsed, one per module; the sources and the consumer files
\* <m>.tf are as they were when the run began, and so is every target file the
\* run did not write.
C11_OnlyTargetWritten ==
    /\ writes = {targetVariableFilePattern(entries[i].name) :
                    i \in {j \in Completed : srcFiles[entries[j].name].state = "ok"}}
    /\ srcFiles = atEntry.src
    /\ \A c \in ConsumerNames : outFiles[c] = atEntry.out[c]
    /\ \A t \in TargetNames \ writes : outFiles[t] = atEntry.out[t]

C11_Witness ==
    /\ pc = "done"
    /\ Cardinality(Completed) = 3
    /\ Cardinality(writes) = 2
    /\ \E i \in Completed : srcFiles[entries[i].name].state = "malformed"

\* C12: a source variable block without a type attribute never makes the run
\* crash: its module yields an output block or is counted as one error, and the
\* batch goes on.
C12_UntypedNeverCrashes == pc # "crashed"

\* C14: at every point of the loop the three counters partition the directories
\* among the entries visited so far: skipped counts those whose name does not
\* start with "addon" or holds a ".", errors the other ones whose processing
\* failed, processed the rest; only such directories are ever processed.
C14_CountersPartition ==
    LET dirs == {i \in 1..(idx - 1) : entries[i].isDir}
        cands == {i \in dirs : IsCandidate(entries[i])}
        failed == {i \in cands : ModuleFails(entries[i].name)}
    IN  /\ processedCount + skippedCount + errorCount = Cardinality(dirs)
        /\ skippedCount = Cardinality(dirs \ cands)
        /\ errorCount = Cardinality(failed)
        /\ processedCount = Cardinality(cands \ failed)
        /\ \A k \in 1..Len(started) :
               \E i \in Candidates : i <= idx /\ entries[i].name = started[k]

C14_Witness ==
    /\ pc = "loop"
    /\ idx = 4
    /\ processedCount = 1
    /\ skippedCount = 1
    /\ errorCount = 1

\* C15: a module whose source cannot be read or parsed gets no write: its target
\* file is as it was when the run began; and the target of every module whose
\* processing succeeded holds what its own source yields, whatever happened to
\* the other modules.
C15_FailedSourceWritesNothing ==
    \A i \in Completed :
        LET m == entries[i].name
            t == targetVariableFilePattern(m)
        IN  /\ srcFiles[m].state # "ok"
                => (t \notin writes /\ outFiles[t] = atEntry.out[t])
            /\ (srcFiles[m].state = "ok" /\ writeOk[m])
                => outFiles[t] = Generated(
                       syncAddonVariables(extractBlocks(srcFiles[m].blocks, <<>>),
                                          <<>>).body)

C15_Witness ==
    \E i \in Completed : \E j \in Completed :
        /\ i < j
        /\ srcFiles[entries[i].name].state = "unreadable"
        /\ outFiles[targetVariableFilePattern(entries[i].name)] = OldFile
        /\ outFiles[targetVariableFilePattern(entries[j].name)].kind = "generated"

\* The consumer file of the module as it was and as syncAddonDefaults left it
ConsumerIn == atEntry.out[targetAddonFilePattern(entries[1].name)].body

ConsumerOut == outFiles[targetAddonFilePattern(entries[1].name)].body

\* The places of the source where a variable of that name is declared
Declarations(name) ==
    LET blocks == srcFiles[entries[1].name].blocks
    IN  {i \in DOMAIN blocks : /\ blocks[i].kind = "variable"
                               /\ Len(blocks[i].labels) > 0
                               /\ blocks[i].labels[1] = name}

\* The default of the last declaration of the name, <<>> when it has none
DeclaredDefault(name) ==
    srcFiles[entries[1].name].blocks[SetMax(Declarations(name))].default

NullLiteral == <<"n", "u", "l", "l">>

\* The default the rewrite is said to use
PolicyDefault(name) ==
    IF Declarations(name) = {} THEN NullLiteral
    ELSE IF DeclaredDefault(name) = <<>> THEN NullLiteral
    ELSE DeclaredDefault(name)

\* The expression holds "try" or "lookup"
Marked(expr) ==
    \/ \E i \in 1..(Len(expr) - 2) : SubSeq(expr, i, i + 2) = <<"t", "r", "y">>
    \/ \E i \in 1..(Len(expr) - 5) :
           SubSeq(expr, i, i + 5) = <<"l", "o", "o", "k", "u", "p">>

\* var.<name> != null ? var.<name> : lookup(local.addon, "<name>", <default>)
Ternary(name, default) ==
    <<"var", ".", name, "!=", "null", "?", "var", ".", name, ":",
      "lookup", "(", "local", ".", "addon", ",", "\"", name, "\"", ",">>
        \o default \o <<")">>

\* C13: after syncAddonDefaults, every attribute of a module block whose
\* expression held a marker is the ternary over its name with a default that
\* is never empty: the declared default, or null when the variable has no
\* default or is not declared at all; every other attribute is as it was.
C13_DefaultNeverEmpty ==
    (pc = "defaultsDone" /\ result = Nil) =>
        /\ Len(ConsumerOut) = Len(ConsumerIn)
        /\ \A k \in DOMAIN ConsumerIn :
               ConsumerIn[k].kind = "module" =>
                   /\ ConsumerOut[k].kind = "module"
                   /\ Len(ConsumerOut[k].attrs) = Len(ConsumerIn[k].attrs)
                   /\ \A a \in DOMAIN ConsumerIn[k].attrs :
                          LET before == ConsumerIn[k].attrs[a]
                              after == ConsumerOut[k].attrs[a]
                          IN  /\ after.name = before.name
                              /\ after.expr =
                                     IF Marked(before.expr)
                                     THEN Ternary(before.name,
                                                  PolicyDefault(before.name))
                                     ELSE before.expr

====
